---------------------------- MODULE Spec2Model ----------------------------
(***************************************************************************)
(* State-machine model of the AWD-LSTM building blocks documented in       *)
(* docs_src/text.models.ipynb (fastai.text.models): dropout_mask,          *)
(* RNNDropout, WeightDropout, EmbeddingDropout, the reset of RNNCore,      *)
(* SequentialRNN, LinearDecoder, the forward pass of the language model    *)
(* and PoolingLinearClassifier.                                            *)
(*                                                                         *)
(* Tensor elements are exact rationals <<n, d>> (d > 0, lowest terms), so  *)
(* that the rescaling by 1/(1-p) is computed, not assumed.  A random draw  *)
(* (the Bernoulli sample behind a mask) is an input of the action that     *)
(* consumes it, chosen with \E over every outcome the draw can have.       *)
(***************************************************************************)
EXTENDS Integers, Sequences, FiniteSets, TLC

VARIABLES
    dp,          \* the RNNDropout module: [st, p]; st is "none", "ok" or "error"
    dpTraining,  \* its training flag (nn.Module.training)
    dpMode,      \* the mode the last forward call ran in: "train", "eval", "none"
    dpX,         \* the tensor given to the last forward call
    dpMask,      \* the mask drawn by the last forward call (<<>> when none was)
    dpPrevMask,  \* the mask drawn by the forward call before the last one
    dpOut,       \* what the last forward call returned
    wd,          \* the WeightDropout module: [st, weight_p, layer_names, raw, module]
    wdTraining,  \* its training flag
    wdRaw0,      \* the shadow weights as the constructor stored them
    wdMode,      \* the mode of the last forward pass: "train", "eval", "raised", "none"
    wdPrevLive,  \* the live weights left by the pass before the last one (<<>>
                 \* when the last pass was the first since the build or reset)
    hidden,      \* the recurrent state of two runs of the model, <<run A, run B>>
    hidIn,       \* the recurrent states the last forward pass started from
    ret,         \* what the last forward pass returned to each run (<<>>: nothing)
    run,         \* forward passes since the model was built or last reset
    phase,       \* "none", "new" (built, not reset since) or "reset"
    same,        \* both runs were given the same inputs since the build or reset
    diverged,    \* the two runs' recurrent states differed when reset was called
    emb,         \* the EmbeddingDropout module: [st, embed_p, weight]
    embTraining, \* its training flag
    embMode,     \* the mode of the last forward call: "train", "eval", "none"
    embWords,    \* the token ids given to the last forward call
    embMask,     \* the mask drawn by the last forward call (<<>> when none was)
    embOut,      \* the vectors the last forward call returned, one per token
    seq,         \* the children of the SequentialRNN: a sequence of
                 \* [kind, passes, resets] (<<>> before it is built)
    seqCalls,    \* calls of SequentialRNN.reset since it was built
    seqLast,     \* the reset calls each child received in the last call of
                 \* SequentialRNN.reset (<<>> when the last operation was not it)
    seqRaised,   \* the last call of SequentialRNN.reset raised
    clf,         \* the classifier head: [st, via, emb_sz, n_class, layers,
                 \* blocks]; via is what built it, emb_sz and n_class what
                 \* get_rnn_classifier was given (0 for a head built alone)
    clfIn,       \* the encoder outputs given to its last forward call
    clfOut,      \* what that call computed: [st, last, mx, avg, x, width]
    lm,          \* the encoder embedding and the LinearDecoder on top of it:
                 \* [st, tie, n_out, n_hid, emb_sz, rnn, enc, dec, heap,
                 \* updates]; enc and dec name the weight objects in heap
    lmOut,       \* the last forward call of the decoder: [st, n_out]
    fw           \* the forward pass of a language model: [pc, n_layers, l,
                 \* words, training, trace]; trace lists what has been
                 \* applied so far, as <<operation, RNN layer (0: none)>>

dpVars == <<dp, dpTraining, dpMode, dpX, dpMask, dpPrevMask, dpOut>>
wdVars == <<wd, wdTraining, wdRaw0, wdMode, wdPrevLive, hidden, hidIn, ret, run,
            phase, same, diverged>>
embVars == <<emb, embTraining, embMode, embWords, embMask, embOut>>
seqVars == <<seq, seqCalls, seqLast, seqRaised>>
clfVars == <<clf, clfIn, clfOut>>
lmVars == <<lm, lmOut>>
fwVars == <<fw>>
vars == <<dpVars, wdVars, embVars, seqVars, clfVars, lmVars, fwVars>>

\* What the operations of one module leave alone: the other modules.
NotDp == <<wdVars, embVars, seqVars, clfVars, lmVars, fwVars>>
NotWd == <<dpVars, embVars, seqVars, clfVars, lmVars, fwVars>>
NotEmb == <<dpVars, wdVars, seqVars, clfVars, lmVars, fwVars>>
NotSeq == <<dpVars, wdVars, embVars, clfVars, lmVars, fwVars>>
NotClf == <<dpVars, wdVars, embVars, seqVars, lmVars, fwVars>>
NotLm == <<dpVars, wdVars, embVars, seqVars, clfVars, fwVars>>
NotFw == <<dpVars, wdVars, embVars, seqVars, clfVars, lmVars>>

---------------------------------------------------------------------------
(* Exact rational arithmetic.                                              *)

Abs(n) == IF n < 0 THEN -n ELSE n

RECURSIVE GCD(_, _)
GCD(a, b) == IF b = 0 THEN a ELSE GCD(b, a % b)

\* The rational n/d in lowest terms with a positive denominator (d # 0).
\* (The pair v = <<n, d>> and the divisor g are bound as values, so that
\* each is computed once wherever the operator is evaluated.)
Rat(n, d) ==
    CHOOSE r \in UNION {{<<(IF v[2] < 0 THEN -v[1] ELSE v[1]) \div g,
                           Abs(v[2]) \div g>> :
                             g \in {GCD(Abs(v[1]), Abs(v[2]))}} :
                         v \in {<<n, d>>}} : TRUE

Zero == <<0, 1>>
One == <<1, 1>>

RAdd(a, b) == Rat(a[1] * b[2] + b[1] * a[2], a[2] * b[2])
RSub(a, b) == Rat(a[1] * b[2] - b[1] * a[2], a[2] * b[2])
RMul(a, b) == Rat(a[1] * b[1], a[2] * b[2])
RDiv(a, b) == Rat(a[1] * b[2], a[2] * b[1])
RLess(a, b) == a[1] * b[2] < b[1] * a[2]

\* Nested sequences of integers as nested sequences of rationals.
Vec(v) == [i \in 1..Len(v) |-> Rat(v[i], 1)]
Mat(m) == [i \in 1..Len(m) |-> Vec(m[i])]
Ten(t) == [i \in 1..Len(t) |-> Mat(t[i])]

---------------------------------------------------------------------------
(* Drop probabilities a caller may pass to a constructor.                  *)

ValidPs == {Zero, Rat(3, 10), Rat(1, 2)}
InvalidPs == {One, Rat(3, 2), Rat(-1, 2)}
AnyPs == ValidPs \cup InvalidPs

\* The configuration invariant of a drop probability: p in [0, 1).
ValidProbability(p) == ~RLess(p, Zero) /\ RLess(p, One)

---------------------------------------------------------------------------
(* Tensors are three-dimensional: a sequence (dimension 0) of sequences    *)
(* (dimension 1) of sequences (dimension 2) of rationals.  A matrix is a   *)
(* tensor whose dimension 0 has size 1.                                    *)

Size(t) == <<Len(t), Len(t[1]), Len(t[1][1])>>

\* Index i of a dimension of size n under broadcasting: a dimension of
\* size 1 is repeated along the other operand's dimension.
BroadcastIndex(i, n) == IF n = 1 THEN 1 ELSE i

\* x * m, elementwise, m broadcast to the size of x.
BroadcastMul(x, m) ==
    [s \in 1..Len(x) |-> [b \in 1..Len(x[1]) |-> [f \in 1..Len(x[1][1]) |->
        RMul(x[s][b][f],
             m[BroadcastIndex(s, Len(m))]
              [BroadcastIndex(b, Len(m[1]))]
              [BroadcastIndex(f, Len(m[1][1]))])]]]

\* A tensor object: its identity and its elements.  Two objects with equal
\* elements are still two objects.
Tensor(id, data) == [id |-> id, data |-> data]
NoTensor == Tensor("none", <<>>)
\* What a call yields when it raises instead of returning.
Raised == Tensor("raised", <<>>)

---------------------------------------------------------------------------
(* dropout_mask(x, sz, p): a tensor of size sz whose elements are a        *)
(* Bernoulli(1-p) draw divided by 1-p.  x only gives the mask its type.    *)

\* The outcomes of the Bernoulli(1-p) draw of size sz: 1 keeps, 0 cancels.
\* With p = 0 an element is kept with probability 1.
Bernoulli(sz, p) ==
    IF p = Zero
    THEN {[s \in 1..sz[1] |-> [b \in 1..sz[2] |-> [f \in 1..sz[3] |-> 1]]]}
    ELSE [1..sz[1] -> [1..sz[2] -> [1..sz[3] -> {0, 1}]]]

\* Mutant: the draw is returned as it is, without the division by 1-p.
dropout_mask_unscaled(sz, p, bern) ==
    [s \in 1..sz[1] |-> [b \in 1..sz[2] |-> [f \in 1..sz[3] |->
        Rat(bern[s][b][f], 1)]]]

dropout_mask(sz, p, bern) ==
    [s \in 1..sz[1] |-> [b \in 1..sz[2] |-> [f \in 1..sz[3] |->
        RDiv(Rat(bern[s][b][f], 1), RSub(One, p))]]]

---------------------------------------------------------------------------
(* RNNDropout(p): dropout with probability p that is consistent on the     *)
(* seq_len dimension (dimension 0).                                        *)

NoModule == [st |-> "none", p |-> Zero]

\* Mutant: the constructor stores whatever probability it is given.
RNNDropout_init_unchecked(p) == [st |-> "ok", p |-> p]

\* The constructor: a probability outside [0, 1) is a configuration error
\* and no module is produced.
RNNDropout_init(p) ==
    IF ValidProbability(p) THEN [st |-> "ok", p |-> p]
    ELSE [st |-> "error", p |-> p]

\* Mutant: the mask has the size of the whole input (plain dropout).
RNNDropout_mask_size_full(x) == Size(x)

\* The size of the mask drawn for input x: one element per (batch,
\* feature) pair, to be expanded in the sequence length dimension.
RNNDropout_mask_size(x) == <<1, Len(x[1]), Len(x[1][1])>>

\* Mutant: the training flag is not consulted.
RNNDropout_is_identity_any_mode(p, training) == p = Zero

\* Mutant: p = 0 is not special-cased; the mask of ones is drawn and applied.
RNNDropout_is_identity_eval_only(p, training) == ~training

\* Whether forward hands its input back untouched.
RNNDropout_is_identity(p, training) == ~training \/ p = Zero

\* forward(x): [out, mask], bern being the Bernoulli draw of this call.
RNNDropout_forward(self, training, x, bern) ==
    IF RNNDropout_is_identity(self.p, training)
    THEN [out |-> x, mask |-> <<>>]
    ELSE IF ~ValidProbability(self.p)
    THEN [out |-> Raised, mask |-> <<>>]
    ELSE LET m == dropout_mask(RNNDropout_mask_size(x.data), self.p, bern)
         IN  [out |-> Tensor("product", BroadcastMul(x.data, m)), mask |-> m]

\* Sample activations of shape (sequence_length, batch, features).
DropoutInputs ==
    { Tensor("input", Ten(<< << <<1, -2>>, <<3, 4>> >>,
                            << <<-1, 2>>, <<5, -3>> >> >>)),
      Tensor("input", Ten(<< << <<2, 0>> >>,
                            << <<-1, 3>> >>,
                            << <<4, 1>> >> >>)),
      Tensor("input", Ten(<< << <<1, 2, -3>> >>,
                            << <<-2, 1, 4>> >> >>)) }

DropoutInit ==
    /\ dp = NoModule
    /\ dpTraining = TRUE
    /\ dpMode = "none"
    /\ dpX = NoTensor
    /\ dpMask = <<>>
    /\ dpPrevMask = <<>>
    /\ dpOut = NoTensor

\* dp = RNNDropout(p); a new module is in training mode and has had no call.
DP_new(p) ==
    /\ dp.st # "ok"
    /\ dp' = RNNDropout_init(p)
    /\ dpTraining' = TRUE
    /\ dpMode' = "none"
    /\ dpX' = NoTensor
    /\ dpMask' = <<>>
    /\ dpPrevMask' = <<>>
    /\ dpOut' = NoTensor
    /\ UNCHANGED NotDp

\* dp.train() and dp.eval()
DP_train ==
    /\ dp.st = "ok"
    /\ dpTraining' = TRUE
    /\ UNCHANGED <<dp, dpMode, dpX, dpMask, dpPrevMask, dpOut>>
    /\ UNCHANGED NotDp

DP_eval ==
    /\ dp.st = "ok"
    /\ dpTraining' = FALSE
    /\ UNCHANGED <<dp, dpMode, dpX, dpMask, dpPrevMask, dpOut>>
    /\ UNCHANGED NotDp

\* dp(x)
DP_forward(x) ==
    /\ dp.st = "ok"
    /\ \E bern \in (IF RNNDropout_is_identity(dp.p, dpTraining) \/ ~ValidProbability(dp.p)
                    THEN {<<>>}
                    ELSE Bernoulli(RNNDropout_mask_size(x.data), dp.p)) :
          LET r == RNNDropout_forward(dp, dpTraining, x, bern)
          IN  /\ dpOut' = r.out
              /\ dpMask' = r.mask
    /\ dpPrevMask' = dpMask
    /\ dpX' = x
    /\ dpMode' = IF dpTraining THEN "train" ELSE "eval"
    /\ UNCHANGED <<dp, dpTraining>>
    /\ UNCHANGED NotDp

---------------------------------------------------------------------------
(* The wrapped recurrent module.  Its cell arithmetic belongs to the       *)
(* tensor framework; it is modelled as a linear recurrence                 *)
(*     h' = weight_ih_l0 . x + weight_hh_l0 . h                            *)
(* whose output is the new recurrent state.  A weight matrix is a tensor   *)
(* of size <<1, rows, cols>>, a state or an input a sequence of rationals. *)

RECURSIVE SumTo(_, _)
SumTo(v, n) == IF n = 0 THEN Zero ELSE RAdd(SumTo(v, n - 1), v[n])

Dot(row, v) == SumTo([j \in 1..Len(v) |-> RMul(row[j], v[j])], Len(v))
MatVec(w, v) == [i \in 1..Len(w[1]) |-> Dot(w[1][i], v)]
VecAdd(a, b) == [i \in 1..Len(a) |-> RAdd(a[i], b[i])]

Cell(params, h, x) ==
    VecAdd(MatVec(params.weight_ih_l0, x), MatVec(params.weight_hh_l0, h))

\* The initial recurrent state: zeros, one per hidden unit.  The hidden
\* size is the number of columns of weight_hh_l0 (its rows are a multiple
\* of it: four times for an LSTM, once for the cell above).  The state of
\* one batch item is followed; the cell above has no second (cell) state.
ZeroHidden(params) == [i \in 1..Len(params.weight_hh_l0[1][1]) |-> Zero]

\* Sample recurrent modules (hidden size 2, input size 1) and inputs.
SampleModules ==
    { [weight_ih_l0 |-> Ten(<< << <<1>>, <<2>> >> >>),
       weight_hh_l0 |-> Ten(<< << <<1, -2>>, <<3, 1>> >> >>)],
      [weight_ih_l0 |-> Ten(<< << <<-1>>, <<1>> >> >>),
       weight_hh_l0 |-> Ten(<< << <<2, 1>>, <<-1, 4>> >> >>)] }

SampleSteps == {Vec(<<1>>), Vec(<<-2>>)}
\* The model of the two-run specification and its probabilities.
ResetModule ==
    [weight_ih_l0 |-> Ten(<< << <<1>>, <<2>> >> >>),
     weight_hh_l0 |-> Ten(<< << <<1, -2>>, <<3, 1>> >> >>)]
ResetPs == {Zero, Rat(1, 2)}
\* The input of every pass where the claims are about the weights alone.
WeightStep == Vec(<<1>>)

---------------------------------------------------------------------------
(* WeightDropout(module, weight_p, layer_names): wraps a module; a copy    *)
(* (the shadow, "raw" weights) of each layer in layer_names is kept and,   *)
(* at the beginning of a forward pass, dropout of probability weight_p is  *)
(* applied to it to give the weight the wrapped module then uses.          *)

DefaultLayerNames == {"weight_hh_l0"}

NoWeightDropout ==
    [st |-> "none", weight_p |-> Zero, layer_names |-> {}, raw |-> <<>>,
     module |-> <<>>]

\* The constructor: copies the weights of the selected layers.  A
\* probability outside [0, 1) is a configuration error.
WeightDropout_init(module, weight_p, layer_names) ==
    IF ValidProbability(weight_p)
    THEN [st |-> "ok", weight_p |-> weight_p, layer_names |-> layer_names,
          raw |-> [n \in layer_names |-> module[n]], module |-> module]
    ELSE [NoWeightDropout EXCEPT !.st = "error", !.weight_p = weight_p]

\* Mutant: the weights are masked in evaluation mode too.
F_dropout_any_mode(w, p, training, bern) ==
    BroadcastMul(w, dropout_mask(Size(w), p, bern))

\* Dropout of a whole weight matrix, one draw per element, in training
\* mode only; in evaluation mode the weights are used as they are.
F_dropout(w, p, training, bern) ==
    IF training THEN BroadcastMul(w, dropout_mask(Size(w), p, bern)) ELSE w

\* The draws F.dropout may consume in one forward pass: one per element of
\* each layer in layer_names (evaluation mode ignores them).
WeightDraws(self) ==
    IF ~ValidProbability(self.weight_p) THEN {<<>>}
    ELSE LET all == UNION {Bernoulli(Size(self.raw[n]), self.weight_p) :
                           n \in self.layer_names}
         IN  {f \in [self.layer_names -> all] :
                \A n \in self.layer_names :
                    f[n] \in Bernoulli(Size(self.raw[n]), self.weight_p)}

\* Mutant: the shadow weights are masked in place.
WeightDropout__setweights_in_place(self, training, bern) ==
    LET w == [n \in self.layer_names |->
                F_dropout(self.raw[n], self.weight_p, training, bern[n])]
    IN  [self EXCEPT !.raw = w,
                     !.module = [n \in DOMAIN self.module |->
                                   IF n \in self.layer_names THEN w[n]
                                   ELSE self.module[n]]]

\* Mutant: the mask is applied to the weight the previous pass left.
WeightDropout__setweights_from_live(self, training, bern) ==
    [self EXCEPT !.module = [n \in DOMAIN self.module |->
        IF n \in self.layer_names
        THEN F_dropout(self.module[n], self.weight_p, training, bern[n])
        ELSE self.module[n]]]

\* Mutant: a mask is drawn only when the live weight is the shadow weight;
\* a live weight a pass has masked is kept for the passes after it.
WeightDropout__setweights_cached(self, training, bern) ==
    [self EXCEPT !.module = [n \in DOMAIN self.module |->
        IF n \in self.layer_names /\ self.module[n] = self.raw[n]
        THEN F_dropout(self.raw[n], self.weight_p, training, bern[n])
        ELSE self.module[n]]]

\* _setweights: installs, for each layer in layer_names, a freshly masked
\* copy of the shadow weight as the wrapped module's live weight.
WeightDropout__setweights(self, training, bern) ==
    [self EXCEPT !.module = [n \in DOMAIN self.module |->
        IF n \in self.layer_names
        THEN F_dropout(self.raw[n], self.weight_p, training, bern[n])
        ELSE self.module[n]]]

\* forward(x, h): [self, out]; the weights are set, then the wrapped
\* module runs on the module s that _setweights leaves.  In training mode
\* an invalid probability raises.
WeightDropout_forward(self, training, x, h, bern) ==
    IF training /\ ~ValidProbability(self.weight_p)
    THEN [self |-> self, out |-> <<>>, raised |-> TRUE]
    ELSE CHOOSE r \in {[self |-> s, out |-> Cell(s.module, h, x),
                         raised |-> FALSE] :
                           s \in {WeightDropout__setweights(self, training,
                                                            bern)}} : TRUE

---------------------------------------------------------------------------
(* RNNCore keeps the recurrent state between forward passes; reset()       *)
(* resets the hidden states.                                               *)

\* Mutant: reset leaves the recurrent state as it is.
RNNCore_reset_keeps(self, h) == h

RNNCore_reset(self, h) == ZeroHidden(self.module)

\* rnn = WeightDropout(module, weight_p); the model starts in training
\* mode with a fresh recurrent state.
RNN_new(module, weight_p) ==
    LET s == WeightDropout_init(module, weight_p, DefaultLayerNames)
    IN  /\ wd.st # "ok"
        /\ wd' = s
        /\ wdRaw0' = s.raw
        /\ hidden' = IF s.st = "ok"
                     THEN <<ZeroHidden(module), ZeroHidden(module)>> ELSE <<>>
        /\ phase' = IF s.st = "ok" THEN "new" ELSE "none"
    /\ wdTraining' = TRUE
    /\ wdMode' = "none"
    /\ wdPrevLive' = <<>>
    /\ hidIn' = <<>>
    /\ ret' = <<>>
    /\ run' = 0
    /\ same' = TRUE
    /\ diverged' = FALSE
    /\ UNCHANGED NotWd

RNN_train ==
    /\ wd.st = "ok"
    /\ wdTraining' = TRUE
    /\ UNCHANGED <<wd, wdRaw0, wdMode, wdPrevLive, hidden, hidIn, ret, run,
                   phase, same, diverged>>
    /\ UNCHANGED NotWd

RNN_eval ==
    /\ wd.st = "ok"
    /\ wdTraining' = FALSE
    /\ UNCHANGED <<wd, wdRaw0, wdMode, wdPrevLive, hidden, hidIn, ret, run,
                   phase, same, diverged>>
    /\ UNCHANGED NotWd

\* One forward pass of the model in each of the two runs: the same module,
\* the same draw, input xA in run A and xB in run B.
RNN_forward(xA, xB) ==
    /\ wd.st = "ok"
    /\ \E bern \in WeightDraws(wd) :
          \E a \in {WeightDropout_forward(wd, wdTraining, xA, hidden[1], bern)},
             b \in {WeightDropout_forward(wd, wdTraining, xB, hidden[2], bern)} :
              /\ wd' = a.self
              /\ wdMode' = IF a.raised THEN "raised"
                           ELSE IF wdTraining THEN "train" ELSE "eval"
              /\ ret' = <<a.out, b.out>>
              /\ hidden' = IF a.raised THEN hidden ELSE <<a.out, b.out>>
    /\ wdPrevLive' = IF run = 0 THEN <<>> ELSE wd.module
    /\ hidIn' = hidden
    /\ run' = run + 1
    /\ same' = (same /\ xA = xB)
    /\ UNCHANGED <<wdTraining, wdRaw0, phase, diverged>>
    /\ UNCHANGED NotWd

\* model.reset()
RNN_reset ==
    /\ wd.st = "ok"
    /\ hidden' = <<RNNCore_reset(wd, hidden[1]), RNNCore_reset(wd, hidden[2])>>
    /\ diverged' = (hidden[1] # hidden[2])
    /\ hidIn' = <<>>
    /\ ret' = <<>>
    /\ run' = 0
    /\ phase' = "reset"
    /\ same' = TRUE
    /\ UNCHANGED <<wd, wdTraining, wdRaw0, wdMode, wdPrevLive>>
    /\ UNCHANGED NotWd

---------------------------------------------------------------------------
(* EmbeddingDropout(emb, embed_p): each row of the embedding matrix has a  *)
(* probability embed_p of being replaced by zeros while the others are     *)
(* rescaled accordingly.  Token ids count from 0; row id + 1 of the        *)
(* weight (a tensor of size <<1, vocab_sz, emb_sz>>) is the vector of id.  *)

NoEmbedding == [st |-> "none", embed_p |-> Zero, weight |-> <<>>]

EmbeddingDropout_init(weight, embed_p) ==
    [st |-> "ok", embed_p |-> embed_p, weight |-> weight]

\* Mutant: one draw per element of the embedding matrix.
EmbeddingDropout_mask_size_elementwise(weight) == Size(weight)

\* The size of the mask: one element per row of the embedding matrix.
EmbeddingDropout_mask_size(weight) == <<1, Len(weight[1]), 1>>

\* F.embedding(words, weight): the row of each token id, in order.
F_embedding(words, weight) ==
    [i \in 1..Len(words) |-> weight[1][words[i] + 1]]

\* forward(words), the optional scale left at its default None: [out, mask].
\* In training mode the matrix is multiplied by a mask broadcast along each
\* row, then the ids are looked up.
EmbeddingDropout_forward(self, training, words, bern) ==
    IF training
    THEN LET m == dropout_mask(EmbeddingDropout_mask_size(self.weight),
                               self.embed_p, bern)
         IN  [out |-> F_embedding(words, BroadcastMul(self.weight, m)),
              mask |-> m]
    ELSE [out |-> F_embedding(words, self.weight), mask |-> <<>>]

\* A sample embedding matrix (vocab_sz 3, emb_sz 2) and sample inputs.
SampleEmbedding == Ten(<< << <<1, -2>>, <<3, 4>>, <<-1, 5>> >> >>)
SampleWords == {<<0, 1, 0>>, <<2, 2>>, <<1, 2, 0>>, <<1>>}

EMB_new(p) ==
    /\ emb.st # "ok"
    /\ emb' = EmbeddingDropout_init(SampleEmbedding, p)
    /\ embTraining' = TRUE
    /\ embMode' = "none"
    /\ embWords' = <<>>
    /\ embMask' = <<>>
    /\ embOut' = <<>>
    /\ UNCHANGED NotEmb

EMB_train ==
    /\ emb.st = "ok"
    /\ embTraining' = TRUE
    /\ UNCHANGED <<emb, embMode, embWords, embMask, embOut>>
    /\ UNCHANGED NotEmb

EMB_eval ==
    /\ emb.st = "ok"
    /\ embTraining' = FALSE
    /\ UNCHANGED <<emb, embMode, embWords, embMask, embOut>>
    /\ UNCHANGED NotEmb

\* enc_dp(words)
EMB_forward(words) ==
    /\ emb.st = "ok"
    /\ \E bern \in (IF embTraining
                    THEN Bernoulli(EmbeddingDropout_mask_size(emb.weight),
                                   emb.embed_p)
                    ELSE {<<>>}) :
          LET r == EmbeddingDropout_forward(emb, embTraining, words, bern)
          IN  /\ embOut' = r.out
              /\ embMask' = r.mask
    /\ embWords' = words
    /\ embMode' = IF embTraining THEN "train" ELSE "eval"
    /\ UNCHANGED <<emb, embTraining>>
    /\ UNCHANGED NotEmb

EmbedInit ==
    /\ emb = NoEmbedding
    /\ embTraining = TRUE
    /\ embMode = "none"
    /\ embWords = <<>>
    /\ embMask = <<>>
    /\ embOut = <<>>

WeightInit ==
    /\ wd = NoWeightDropout
    /\ wdTraining = TRUE
    /\ wdRaw0 = <<>>
    /\ wdMode = "none"
    /\ wdPrevLive = <<>>
    /\ hidden = <<>>
    /\ hidIn = <<>>
    /\ ret = <<>>
    /\ run = 0
    /\ phase = "none"
    /\ same = TRUE
    /\ diverged = FALSE

---------------------------------------------------------------------------
(* SequentialRNN: a sequential module that passes the reset call to its    *)
(* children, calling the reset function of each of them if it has one.     *)
(* A child is [kind, passes, resets, children]: the class it is an         *)
(* instance of, the forward passes its hidden states have seen since they  *)
(* were last reset, the calls of its reset function it has received, and,  *)
(* for a SequentialRNN, its own children.                                  *)

\* The classes of this module that define reset: SequentialRNN, RNNCore,
\* MultiBatchRNNCore (which is an RNNCore) and WeightDropout.
Resettable == {"SequentialRNN", "RNNCore", "MultiBatchRNNCore", "WeightDropout"}

\* The classes that keep hidden states between forward passes.
Recurrent == {"RNNCore", "MultiBatchRNNCore"}

\* hasattr(c, 'reset')
has_reset(c) == c.kind \in Resettable

Child(kind) == [kind |-> kind, passes |-> 0, resets |-> 0, children |-> <<>>]
Nested(children) == [Child("SequentialRNN") EXCEPT !.children = children]

\* Mutant: reset is called on every child, whether it has one or not.
SequentialRNN_calls_reset_always(c) == TRUE

\* Whether SequentialRNN.reset calls c.reset(): if c has one.
SequentialRNN_calls_reset(c) == has_reset(c)

RECURSIVE SequentialRNN_reset_from(_, _)

\* c.reset() of a child that has it: [child, raised].  The hidden states
\* start afresh; a SequentialRNN passes the call to its own children.
Child_reset(c) ==
    IF c.kind = "SequentialRNN"
    THEN LET r == SequentialRNN_reset_from(c.children, 1)
         IN  [child |-> [c EXCEPT !.children = r.children, !.resets = @ + 1],
              raised |-> r.raised]
    ELSE [child |-> [c EXCEPT !.passes = 0, !.resets = @ + 1],
          raised |-> FALSE]

\* for c in self.children(): if hasattr(c, 'reset'): c.reset()
\* from child i on.  Calling reset on a child without one raises
\* AttributeError, which ends the loop.
SequentialRNN_reset_from(children, i) ==
    IF i > Len(children)
    THEN [children |-> children, raised |-> FALSE]
    ELSE IF ~SequentialRNN_calls_reset(children[i])
    THEN SequentialRNN_reset_from(children, i + 1)
    ELSE IF ~has_reset(children[i])
    THEN [children |-> children, raised |-> TRUE]
    ELSE LET r == Child_reset(children[i])
             done == [children EXCEPT ![i] = r.child]
         IN  IF r.raised THEN [children |-> done, raised |-> TRUE]
             ELSE SequentialRNN_reset_from(done, i + 1)

SequentialRNN_reset(children) == SequentialRNN_reset_from(children, 1)

\* The forward pass of the sequence: every child in turn; a child that
\* keeps hidden states has them advanced by the pass.
RECURSIVE SequentialRNN_forward(_)
SequentialRNN_forward(children) ==
    [i \in 1..Len(children) |->
        IF children[i].kind \in Recurrent
        THEN [children[i] EXCEPT !.passes = @ + 1]
        ELSE IF children[i].kind = "SequentialRNN"
        THEN [children[i] EXCEPT !.children = SequentialRNN_forward(@)]
        ELSE children[i]]

\* No child, however deep, has seen n forward passes since its last reset.
RECURSIVE PassesBelow(_, _)
PassesBelow(children, n) ==
    \A i \in 1..Len(children) :
        children[i].passes < n /\ PassesBelow(children[i].children, n)

\* Sequences of children: the language model (RNNCore, LinearDecoder), the
\* classifier (MultiBatchRNNCore, PoolingLinearClassifier), and others,
\* among them a WeightDropout and a SequentialRNN as children.
SampleChildren ==
    { <<Child("RNNCore"), Child("LinearDecoder")>>,
      <<Child("MultiBatchRNNCore"), Child("PoolingLinearClassifier")>>,
      <<Child("RNNCore")>>,
      <<Child("MultiBatchRNNCore")>>,
      <<Child("LinearDecoder")>>,
      <<Child("RNNCore"), Child("RNNCore")>>,
      <<Child("MultiBatchRNNCore"), Child("LinearDecoder"),
        Child("PoolingLinearClassifier")>>,
      <<Child("WeightDropout"), Child("LinearDecoder")>>,
      <<Child("LinearDecoder"), Child("RNNCore")>>,
      <<Child("RNNCore"), Child("RNNCore"), Child("LinearDecoder")>>,
      <<Nested(<<Child("RNNCore"), Child("LinearDecoder")>>),
        Child("WeightDropout"), Child("RNNCore"), Child("LinearDecoder")>>,
      <<Nested(<<Child("LinearDecoder")>>), Child("PoolingLinearClassifier")>>,
      <<Child("PoolingLinearClassifier"), Child("RNNCore"),
        Child("LinearDecoder"), Child("MultiBatchRNNCore")>> }

SeqInit ==
    /\ seq = <<>>
    /\ seqCalls = 0
    /\ seqLast = <<>>
    /\ seqRaised = FALSE

SEQ_new(children) ==
    /\ seq = <<>>
    /\ seq' = children
    /\ seqCalls' = 0
    /\ seqLast' = <<>>
    /\ seqRaised' = FALSE
    /\ UNCHANGED NotSeq

SEQ_forward ==
    /\ seq # <<>>
    /\ seq' = SequentialRNN_forward(seq)
    /\ seqLast' = <<>>
    /\ seqRaised' = FALSE
    /\ UNCHANGED seqCalls
    /\ UNCHANGED NotSeq

SEQ_reset ==
    /\ seq # <<>>
    /\ LET r == SequentialRNN_reset(seq)
       IN  /\ seq' = r.children
           /\ seqLast' = [i \in 1..Len(seq) |->
                             r.children[i].resets - seq[i].resets]
           /\ seqRaised' = r.raised
    /\ seqCalls' = seqCalls + 1
    /\ UNCHANGED NotSeq

---------------------------------------------------------------------------
(* PoolingLinearClassifier(layers, drops): a linear classifier with        *)
(* pooling.  The last output, the max pooling of all the outputs and the   *)
(* average pooling of all the outputs are concatenated, then blocks of     *)
(* BatchNorm, Dropout, Linear, ReLU are stacked according to the values    *)
(* in layers and drops, with no ReLU in the last one.  The encoder's       *)
(* outputs are a tensor of size <<seq_len, bs, features>>; the layers'     *)
(* arithmetic belongs to the tensor framework, so a forward pass is        *)
(* followed through the layers by the width of what they are given.        *)

RMax(a, b) == IF RLess(a, b) THEN b ELSE a

RECURSIVE RMaxSeq(_, _)
RMaxSeq(v, n) == IF n = 1 THEN v[1] ELSE RMax(RMaxSeq(v, n - 1), v[n])

\* adaptive_max_pool1d / adaptive_avg_pool1d to an output of size one: the
\* maximum, or the mean, of the whole last dimension.
AdaptivePool1d(v, is_max) ==
    IF is_max THEN RMaxSeq(v, Len(v))
    ELSE RDiv(SumTo(v, Len(v)), Rat(Len(v), 1))

\* x.permute(1, 2, 0): the seq_len dimension becomes the last one.
PermuteSeqLast(x) ==
    [b \in 1..Len(x[1]) |-> [f \in 1..Len(x[1][1]) |->
        [s \in 1..Len(x) |-> x[s][b][f]]]]

\* x.permute(0, 2, 1): the batch dimension becomes the last one.
PermuteBatchLast(x) ==
    [s \in 1..Len(x) |-> [f \in 1..Len(x[1][1]) |->
        [b \in 1..Len(x[1]) |-> x[s][b][f]]]]

\* m.view(bs, -1) of a matrix m: its elements, row after row, as bs rows
\* of equal length; <<>> when they cannot be divided so (view raises).
RECURSIVE FlattenRows(_, _)
FlattenRows(m, n) == IF n = 0 THEN <<>> ELSE FlattenRows(m, n - 1) \o m[n]

View(m, bs) ==
    LET flat == FlattenRows(m, Len(m))
        w == Len(flat) \div bs
    IN  IF Len(flat) % bs # 0 THEN <<>>
        ELSE [b \in 1..bs |-> [k \in 1..w |-> flat[(b - 1) * w + k]]]

\* The pooling of every row of the last dimension of y, viewed as bs rows.
PoolLast(y, bs, is_max) ==
    View([i \in 1..Len(y) |-> [j \in 1..Len(y[1]) |->
             AdaptivePool1d(y[i][j], is_max)]], bs)

\* Mutant: the tensor is pooled along the batch dimension.
PoolingLinearClassifier_pool_batch(x, bs, is_max) ==
    PoolLast(PermuteBatchLast(x), bs, is_max)

\* pool(x, bs, is_max): pool the tensor along the seq_len dimension.
PoolingLinearClassifier_pool(x, bs, is_max) ==
    PoolLast(PermuteSeqLast(x), bs, is_max)

\* One layer of the stack.
Layer(op, n_in, n_out, p) == [op |-> op, n_in |-> n_in, n_out |-> n_out, p |-> p]

\* bn_drop_lin(n_in, n_out, p, actn): one block.
bn_drop_lin(n_in, n_out, p, actn) ==
    << Layer("BatchNorm", n_in, n_in, Zero),
       Layer("Dropout", n_in, n_in, p),
       Layer("Linear", n_in, n_out, Zero) >>
    \o (IF actn = "None" THEN <<>> ELSE <<Layer(actn, n_out, n_out, Zero)>>)

\* The activations of n blocks: ReLU, but none in the last one.
PoolingLinearClassifier_activs(n) ==
    [k \in 1..n |-> IF k < n THEN "ReLU" ELSE "None"]

\* PoolingLinearClassifier(layers, drops): the blocks, one per pair of
\* consecutive sizes in layers.
PoolingLinearClassifier_init(layers, drops) ==
    LET n == Len(layers) - 1
        activs == PoolingLinearClassifier_activs(n)
    IN  [k \in 1..n |->
            bn_drop_lin(layers[k], layers[k + 1], drops[k], activs[k])]

NoClassifier ==
    [st |-> "none", via |-> "none", emb_sz |-> 0, n_class |-> 0,
     layers |-> <<>>, blocks |-> <<>>]

\* get_rnn_classifier(..., n_class, ..., emb_sz, ..., layers, drops): the
\* head of the classifier is PoolingLinearClassifier(layers, drops), layers
\* and drops being the function's own arguments.
get_rnn_classifier(n_class, emb_sz, layers, drops) ==
    [st |-> "ok", via |-> "get_rnn_classifier", emb_sz |-> emb_sz,
     n_class |-> n_class, layers |-> layers,
     blocks |-> PoolingLinearClassifier_init(layers, drops)]

\* The width a batch of width w has after the layers from the i-th on (the
\* blocks stacked into one sequence); -1 when a BatchNorm or a Linear is
\* given a width that is not its n_in (the layer raises).
RECURSIVE RunLayers(_, _, _)
RunLayers(stack, i, w) ==
    IF i > Len(stack) THEN w
    ELSE IF stack[i].op \in {"BatchNorm", "Linear"} /\ stack[i].n_in # w
    THEN -1
    ELSE RunLayers(stack, i + 1,
                   IF stack[i].op = "Linear" THEN stack[i].n_out ELSE w)

RECURSIVE Stacked(_, _)
Stacked(blocks, n) == IF n = 0 THEN <<>> ELSE Stacked(blocks, n - 1) \o blocks[n]

NoClassified ==
    [st |-> "none", last |-> <<>>, mx |-> <<>>, avg |-> <<>>, x |-> <<>>,
     width |-> 0]

\* torch.cat(parts, 1) of three matrices: row b of the result is the rows
\* b of the parts, one after the other.
Cat1(parts) ==
    [b \in 1..Len(parts[1]) |-> parts[1][b] \o parts[2][b] \o parts[3][b]]

\* PoolingLinearClassifier.forward on the encoder's outputs: the last
\* output, the max pooling and the average pooling are concatenated and
\* given to the layers.  The concatenation raises when the three do not
\* have as many rows.
PoolingLinearClassifier_forward(self, output) ==
    LET sl == Len(output)
        bs == Len(output[1])
        avgpool == PoolingLinearClassifier_pool(output, bs, FALSE)
        mxpool == PoolingLinearClassifier_pool(output, bs, TRUE)
        parts == <<output[sl], mxpool, avgpool>>
    IN  IF Len(mxpool) # bs \/ Len(avgpool) # bs
        THEN [NoClassified EXCEPT !.st = "raised", !.last = output[sl],
                                  !.mx = mxpool, !.avg = avgpool]
        ELSE LET x == Cat1(parts)
                 w == RunLayers(Stacked(self.blocks, Len(self.blocks)), 1,
                                Len(x[1]))
             IN  [st |-> IF w = -1 THEN "raised" ELSE "ok",
                  last |-> output[sl], mx |-> mxpool, avg |-> avgpool,
                  x |-> x, width |-> w]

\* Numbers of classes, embedding sizes, lists of layer sizes and dropout
\* probabilities (one per block, read in order) a caller may pass.
SampleClasses == {2, 3, 5}
SampleEmbSizes == {1, 2}
SampleLayers == {<<3, 2>>, <<6, 3>>, <<6, 4, 2>>, <<3, 5, 4, 5>>, <<5, 2>>,
                 <<6, 4>>}
SampleDrops == {<<Rat(1, 10), Rat(1, 10), Rat(1, 10)>>,
                <<Rat(1, 2), Rat(3, 10), Rat(1, 10)>>,
                <<Zero, Rat(1, 2), Zero>>}

\* Encoder outputs, of size <<seq_len, bs, features>>.
SampleOutputs ==
    { Ten(<< <<<<1, 5>>, <<-2, 0>>>>, <<<<4, -3>>, <<7, 7>>>>,
             <<<<0, 2>>, <<-1, 6>>>> >>),
      Ten(<< <<<<3, -4>>>> >>),
      Ten(<< <<<<1, 2>>, <<3, 4>>>>, <<<<5, 0>>, <<-6, 9>>>> >>),
      Ten(<< <<<<1>>, <<2>>, <<-3>>>>, <<<<0>>, <<5>>, <<-1>>>> >>),
      Ten(<< <<<<2>>>>, <<<<-1>>>>, <<<<7>>>>, <<<<0>>>> >>),
      Ten(<< <<<<4>>, <<-2>>>>, <<<<1>>, <<3>>>> >>) }

ClfInit ==
    /\ clf = NoClassifier
    /\ clfIn = <<>>
    /\ clfOut = NoClassified

\* model = get_rnn_classifier(..., n_class, ..., emb_sz, ..., layers, drops)
CLF_new(n_class, emb_sz, layers, drops) ==
    /\ clf.st = "none"
    /\ clf' = get_rnn_classifier(n_class, emb_sz, layers, drops)
    /\ clfIn' = <<>>
    /\ clfOut' = NoClassified
    /\ UNCHANGED NotClf

\* head = PoolingLinearClassifier(layers, drops)
PLC_new(layers, drops) ==
    /\ clf.st = "none"
    /\ clf' = [NoClassifier EXCEPT
                  !.st = "ok", !.via = "PoolingLinearClassifier",
                  !.layers = layers,
                  !.blocks = PoolingLinearClassifier_init(layers, drops)]
    /\ clfIn' = <<>>
    /\ clfOut' = NoClassified
    /\ UNCHANGED NotClf

\* The head is called on the outputs of an encoder.
CLF_forward(output) ==
    /\ clf.st = "ok"
    /\ clfIn' = output
    /\ clfOut' = PoolingLinearClassifier_forward(clf, output)
    /\ UNCHANGED clf
    /\ UNCHANGED NotClf

---------------------------------------------------------------------------
(* LinearDecoder(n_out, n_hid, output_p, tie_encoder, bias): goes on top   *)
(* of an RNNCore to create a language model.  n_hid is the dimension of    *)
(* the last hidden state of the encoder, n_out the size of the output.  If *)
(* a tie_encoder is passed, it is used for the weights of the linear       *)
(* layer.  Weight objects live in a heap, heap[name] being the matrix of   *)
(* the object called name, so that two modules can hold the same object.   *)
(* A linear layer of n_hid inputs and n_out outputs has a weight of n_out  *)
(* rows and n_hid columns; an embedding of vocab_sz ids and emb_sz         *)
(* features has a weight of vocab_sz rows and emb_sz columns.              *)

Shape(m) == <<Len(m), Len(m[1])>>

\* The weights the framework creates for a new embedding and a new linear
\* layer (sample values, different in the two).
EmbeddingWeight(vocab_sz, emb_sz) ==
    [r \in 1..vocab_sz |-> [c \in 1..emb_sz |-> 10 * r + c]]
LinearWeight(n_out, n_hid) ==
    [r \in 1..n_out |-> [c \in 1..n_hid |-> 0 - r - c]]

\* Mutant: the decoder's own weight is given the elements of the encoder's.
LinearDecoder_tie_copy(heap) ==
    [dec |-> "dec_w", heap |-> [heap EXCEPT !.dec_w = heap.enc_w]]

\* self.decoder.weight = tie_encoder.weight: the linear layer holds the
\* encoder's weight object; its own is dropped.
LinearDecoder_tie(heap) ==
    [dec |-> "enc_w", heap |-> [heap EXCEPT !.dec_w = <<>>]]

\* Mutant: the tied weight is taken whatever its shape.
LinearDecoder_init_unchecked(n_out, n_hid, tie_encoder, heap) ==
    LET own == [heap EXCEPT !.dec_w = LinearWeight(n_out, n_hid)]
        tied == LinearDecoder_tie(own)
    IN  IF ~tie_encoder THEN [st |-> "ok", dec |-> "dec_w", heap |-> own]
        ELSE [st |-> "ok", dec |-> tied.dec, heap |-> tied.heap]

\* LinearDecoder.__init__: a linear layer of n_hid inputs and n_out
\* outputs; with a tie_encoder, whose weight must have that layer's shape
\* (a mismatch is a configuration error, raised here), the layer's weight
\* is the encoder's.
LinearDecoder_init(n_out, n_hid, tie_encoder, heap) ==
    LET own == [heap EXCEPT !.dec_w = LinearWeight(n_out, n_hid)]
        tied == LinearDecoder_tie(own)
    IN  IF ~tie_encoder THEN [st |-> "ok", dec |-> "dec_w", heap |-> own]
        ELSE IF Shape(heap.enc_w) # <<n_out, n_hid>>
        THEN [st |-> "error", dec |-> "none", heap |-> heap]
        ELSE [st |-> "ok", dec |-> tied.dec, heap |-> tied.heap]

\* The sizes <<input, output>> of the RNN layers of get_language_model: a
\* hidden size of n_hid; the last RNN has an output size of emb_sz.
get_language_model_rnn_sizes(emb_sz, n_hid, n_layers) ==
    [l \in 1..n_layers |->
        << IF l = 1 THEN emb_sz ELSE n_hid,
           IF l = n_layers THEN emb_sz ELSE n_hid >>]

NoLanguageModel ==
    [st |-> "none", tie |-> FALSE, n_out |-> 0, n_hid |-> 0, emb_sz |-> 0,
     rnn |-> <<>>, enc |-> "none", dec |-> "none",
     heap |-> [enc_w |-> <<>>, dec_w |-> <<>>], updates |-> 0]

\* An encoder embedding of vocab_sz by emb_sz with RNN layers of the given
\* sizes, and LinearDecoder(n_out, n_hid, tie_encoder) on top of it.
Decoded(vocab_sz, emb_sz, rnn, n_out, n_hid, tie_encoder) ==
    LET heap == [enc_w |-> EmbeddingWeight(vocab_sz, emb_sz), dec_w |-> <<>>]
        d == LinearDecoder_init(n_out, n_hid, tie_encoder, heap)
    IN  [st |-> d.st, tie |-> tie_encoder, n_out |-> n_out, n_hid |-> n_hid,
         emb_sz |-> emb_sz, rnn |-> rnn, enc |-> "enc_w", dec |-> d.dec,
         heap |-> d.heap, updates |-> 0]

\* get_language_model: the decoder gives vocab_sz outputs from the emb_sz
\* outputs of the last RNN, and is tied to the encoder if tie_weights.
get_language_model(vocab_sz, emb_sz, n_hid, n_layers, tie_weights) ==
    Decoded(vocab_sz, emb_sz,
            get_language_model_rnn_sizes(emb_sz, n_hid, n_layers),
            vocab_sz, emb_sz, tie_weights)

\* An in-place update of a weight object (an optimizer step): d is added
\* to each of its elements.
Updated(m, d) == [r \in 1..Len(m) |-> [c \in 1..Len(m[1]) |-> m[r][c] + d]]

\* LinearDecoder.forward on the n_hid features the encoder gives: the
\* linear layer raises when its weight does not have n_hid columns, and
\* gives as many outputs as its weight has rows.
LinearDecoder_forward(self) ==
    LET w == self.heap[self.dec]
    IN  IF Shape(w)[2] # self.n_hid THEN [st |-> "raised", n_out |-> 0]
        ELSE [st |-> "ok", n_out |-> Shape(w)[1]]

SampleVocabSizes == {2, 3}
SampleHiddenSizes == {1, 2, 3}
SampleLayerCounts == {1, 2, 3}
SampleDeltas == {-1, 1}

LmInit ==
    /\ lm = NoLanguageModel
    /\ lmOut = [st |-> "none", n_out |-> 0]

LM_new(vocab_sz, emb_sz, n_hid, n_layers, tie_weights) ==
    /\ lm.st = "none"
    /\ lm' = get_language_model(vocab_sz, emb_sz, n_hid, n_layers, tie_weights)
    /\ UNCHANGED lmOut
    /\ UNCHANGED NotLm

\* A LinearDecoder built by hand on an encoder whose embedding is vocab_sz
\* by emb_sz.
LD_new(vocab_sz, emb_sz, n_out, n_hid, tie_encoder) ==
    /\ lm.st = "none"
    /\ lm' = Decoded(vocab_sz, emb_sz, <<>>, n_out, n_hid, tie_encoder)
    /\ UNCHANGED lmOut
    /\ UNCHANGED NotLm

\* An update of the encoder's embedding weight or of the decoder's linear
\* weight.
LM_update(target, d) ==
    /\ lm.st = "ok"
    /\ LET name == IF target = "encoder" THEN lm.enc ELSE lm.dec
       IN  lm' = [lm EXCEPT !.heap[name] = Updated(@, d),
                            !.updates = @ + 1]
    /\ UNCHANGED lmOut
    /\ UNCHANGED NotLm

LD_forward ==
    /\ lm.st = "ok"
    /\ lmOut' = LinearDecoder_forward(lm)
    /\ UNCHANGED lm
    /\ UNCHANGED NotLm

---------------------------------------------------------------------------
(* The forward pass of the language model get_language_model builds: an    *)
(* RNNCore (embedding with its dropout, input dropout, n_layers RNNs with  *)
(* weight dropout, hidden dropout between them) and a LinearDecoder        *)
(* (output dropout, linear layer).  The pass is followed one module call   *)
(* at a time; fw.trace records the calls in the order they are made.       *)

NoForward ==
    [pc |-> "idle", n_layers |-> 0, l |-> 0, words |-> <<>>,
     training |-> TRUE, trace |-> <<>>]

\* Mutant: the hidden dropout is applied to the output of every layer.
RNNCore_applies_hidden_dp_always(l, n_layers) == TRUE

\* Whether the hidden dropout is applied to the output of layer l: it is
\* applied before the output is used as input of the next layer, and not
\* to the last output.
RNNCore_applies_hidden_dp(l, n_layers) == l # n_layers

\* What follows the output of layer l (after its hidden dropout, if any):
\* the next layer, or the decoder after the last one.
RNNCore_after_layer(self) ==
    IF self.l = self.n_layers THEN [self EXCEPT !.pc = "output_dp"]
    ELSE [self EXCEPT !.pc = "rnn", !.l = @ + 1]

Traced(self, op, l) == [self EXCEPT !.trace = Append(@, <<op, l>>)]

FwInit == fw = NoForward

\* model(words) begins, in training or in evaluation mode.
FW_begin(n_layers, words, training) ==
    /\ fw.pc \in {"idle", "done"}
    /\ fw' = [pc |-> "encoder_dp", n_layers |-> n_layers, l |-> 0,
              words |-> words, training |-> training, trace |-> <<>>]
    /\ UNCHANGED NotFw

\* The embedding dropout, applied when the ids of the tokens are looked up
\* in the embedding matrix.
FW_encoder_dp ==
    /\ fw.pc = "encoder_dp"
    /\ fw' = [Traced(fw, "encoder_dp", 0) EXCEPT !.pc = "input_dp"]
    /\ UNCHANGED NotFw

\* The input dropout, applied to the result of the embedding with dropout.
FW_input_dp ==
    /\ fw.pc = "input_dp"
    /\ fw' = [Traced(fw, "input_dp", 0) EXCEPT !.pc = "rnn", !.l = 1]
    /\ UNCHANGED NotFw

\* RNN layer fw.l (with its weight dropout) runs on what the step before
\* gave.
FW_rnn ==
    /\ fw.pc = "rnn"
    /\ LET t == Traced(fw, "rnn", fw.l)
       IN  fw' = IF RNNCore_applies_hidden_dp(fw.l, fw.n_layers)
                 THEN [t EXCEPT !.pc = "hidden_dp"]
                 ELSE RNNCore_after_layer(t)
    /\ UNCHANGED NotFw

\* The hidden dropout on the output of layer fw.l.
FW_hidden_dp ==
    /\ fw.pc = "hidden_dp"
    /\ fw' = RNNCore_after_layer(Traced(fw, "hidden_dp", fw.l))
    /\ UNCHANGED NotFw

\* LinearDecoder.forward: the output dropout on the last output ...
FW_output_dp ==
    /\ fw.pc = "output_dp"
    /\ fw' = [Traced(fw, "output_dp", 0) EXCEPT !.pc = "decoder"]
    /\ UNCHANGED NotFw

\* ... then the linear layer, whose result the model returns.
FW_decoder ==
    /\ fw.pc = "decoder"
    /\ fw' = [Traced(fw, "decoder", 0) EXCEPT !.pc = "done"]
    /\ UNCHANGED NotFw

---------------------------------------------------------------------------
(* Specifications.                                                         *)

\* Forward passes between two resets, for the weight-dropout claims and
\* for the two-run reset claim.
MaxPasses == 2
MaxRun == 1

\* Calls of SequentialRNN.reset on one model.
MaxResets == 3

\* Updates of the weights of one language model.
MaxUpdates == 2

Init == DropoutInit /\ WeightInit /\ EmbedInit /\ SeqInit
           /\ ClfInit /\ LmInit /\ FwInit

DropoutNext ==
    \/ \E p \in AnyPs : DP_new(p)
    \/ DP_train
    \/ DP_eval
    \/ \E x \in DropoutInputs : DP_forward(x)

\* One model, fed the same input in both runs.
WeightNext ==
    \/ \E m \in SampleModules, p \in AnyPs : RNN_new(m, p)
    \/ RNN_train
    \/ RNN_eval
    \/ run < MaxPasses /\ RNN_forward(WeightStep, WeightStep)
    \/ RNN_reset

\* Two runs of one model, fed inputs that may differ.
ResetNext ==
    \/ \E p \in ResetPs : RNN_new(ResetModule, p)
    \/ RNN_train
    \/ RNN_eval
    \/ \E xA \in SampleSteps, xB \in SampleSteps :
          run < MaxRun /\ RNN_forward(xA, xB)
    \/ RNN_reset

EmbedNext ==
    \/ \E p \in ValidPs : EMB_new(p)
    \/ EMB_train
    \/ EMB_eval
    \/ \E w \in SampleWords : EMB_forward(w)

\* Construction of either dropout module with any probability, and one
\* forward call of what was constructed.
ConfigNext ==
    \/ \E p \in AnyPs : DP_new(p)
    \/ \E x \in DropoutInputs : dpMode = "none" /\ DP_forward(x)
    \/ \E p \in AnyPs : RNN_new(ResetModule, p)
    \/ run < MaxRun /\ RNN_forward(WeightStep, WeightStep)

SeqNext ==
    \/ \E children \in SampleChildren : SEQ_new(children)
    \/ PassesBelow(seq, MaxPasses) /\ SEQ_forward
    \/ seqCalls < MaxResets /\ SEQ_reset

ClassifierNext ==
    \/ \E n_class \in SampleClasses, emb_sz \in SampleEmbSizes,
          layers \in SampleLayers, drops \in SampleDrops :
          CLF_new(n_class, emb_sz, layers, drops)
    \/ \E layers \in SampleLayers, drops \in SampleDrops :
          PLC_new(layers, drops)
    \/ \E output \in SampleOutputs : CLF_forward(output)

TieNext ==
    \/ \E vocab_sz \in SampleVocabSizes, emb_sz \in SampleEmbSizes,
          n_hid \in SampleHiddenSizes, n_layers \in SampleLayerCounts,
          tie_weights \in BOOLEAN :
          LM_new(vocab_sz, emb_sz, n_hid, n_layers, tie_weights)
    \/ \E vocab_sz \in SampleVocabSizes, emb_sz \in SampleEmbSizes,
          n_out \in SampleVocabSizes, n_hid \in SampleEmbSizes,
          tie_encoder \in BOOLEAN :
          LD_new(vocab_sz, emb_sz, n_out, n_hid, tie_encoder)
    \/ \E target \in {"encoder", "decoder"}, d \in SampleDeltas :
          lm.updates < MaxUpdates /\ LM_update(target, d)
    \/ LD_forward

\* Consecutive forward passes of one module in training mode, either an
\* RNNDropout (on the sample inputs of batch size 1 and 2 features) or a
\* WeightDropout, for the claim about the masks they draw.
MaskInputs ==
    {x \in DropoutInputs : RNNDropout_mask_size(x.data) = <<1, 1, 2>>}

MasksNext ==
    \/ \E p \in ValidPs : wd.st = "none" /\ DP_new(p)
    \/ \E x \in MaskInputs : DP_forward(x)
    \/ \E p \in ResetPs : dp.st = "none" /\ RNN_new(ResetModule, p)
    \/ wdPrevLive = <<>> /\ RNN_forward(WeightStep, WeightStep)

ForwardNext ==
    \/ \E n_layers \in SampleLayerCounts, words \in SampleWords,
          training \in BOOLEAN : FW_begin(n_layers, words, training)
    \/ FW_encoder_dp
    \/ FW_input_dp
    \/ FW_rnn
    \/ FW_hidden_dp
    \/ FW_output_dp
    \/ FW_decoder

Next == DropoutNext \/ WeightNext \/ ResetNext \/ EmbedNext \/ ConfigNext
           \/ SeqNext \/ ClassifierNext \/ TieNext
           \/ MasksNext \/ ForwardNext

SpecDropout == Init /\ [][DropoutNext]_vars
SpecWeight == Init /\ [][WeightNext]_vars
SpecReset == Init /\ [][ResetNext]_vars
SpecEmbed == Init /\ [][EmbedNext]_vars
SpecConfig == Init /\ [][ConfigNext]_vars
SpecSeq == Init /\ [][SeqNext]_vars
SpecClassifier == Init /\ [][ClassifierNext]_vars
SpecTie == Init /\ [][TieNext]_vars
SpecMasks == Init /\ [][MasksNext]_vars
SpecForward == Init /\ [][ForwardNext]_vars
Spec == Init /\ [][Next]_vars

---------------------------------------------------------------------------
(* Properties.                                                             *)

\* The factor 1/(1-p) that surviving values are rescaled by.
Scale(p) == RDiv(One, RSub(One, p))

Positions(t) == {<<s, b, f>> : s \in 1..Len(t), b \in 1..Len(t[1]),
                               f \in 1..Len(t[1][1])}
At(t, i) == t[i[1]][i[2]][i[3]]

\* C1: RNNDropout forward in training mode with 0 < p < 1 returns a tensor
\* of the shape of its input in which every (batch, feature) pair is either
\* zero at every sequence position or, at every sequence position, the
\* input value times 1/(1-p).
C1_SequenceConsistent ==
    (dpMode = "train" /\ RLess(Zero, dp.p) /\ RLess(dp.p, One)) =>
        /\ Size(dpOut.data) = Size(dpX.data)
        /\ \A b \in 1..Len(dpX.data[1]), f \in 1..Len(dpX.data[1][1]) :
              \/ \A s \in 1..Len(dpX.data) : dpOut.data[s][b][f] = Zero
              \/ \A s \in 1..Len(dpX.data) :
                    dpOut.data[s][b][f] =
                        RMul(dpX.data[s][b][f], Scale(dp.p))

\* A training pass over at least two timesteps that dropped one (batch,
\* feature) pair whose inputs are all non-zero and kept another.
C1_Witness ==
    /\ dpMode = "train" /\ RLess(Zero, dp.p)
    /\ Len(dpX.data) >= 2
    /\ \E b \in 1..Len(dpX.data[1]), f \in 1..Len(dpX.data[1][1]) :
          \A s \in 1..Len(dpX.data) :
              dpX.data[s][b][f] # Zero /\ dpOut.data[s][b][f] = Zero
    /\ \E b \in 1..Len(dpX.data[1]), f \in 1..Len(dpX.data[1][1]) :
          \A s \in 1..Len(dpX.data) : dpOut.data[s][b][f] # Zero

\* C5: in evaluation mode RNNDropout returns its input unchanged at every
\* position, whatever p is.
C5_EvalIdentity ==
    dpMode = "eval" => dpOut.data = dpX.data

C5_Witness ==
    /\ dpMode = "eval" /\ dp.p = Rat(1, 2)
    /\ dpX # NoTensor /\ dpOut.data = dpX.data

\* C6: with p = 0 RNNDropout returns the very object it was given, in
\* training mode as in evaluation mode, and draws no mask.
C6_ZeroIsSameObject ==
    (dpMode # "none" /\ dp.p = Zero) => (dpOut = dpX /\ dpMask = <<>>)

C6_Witness ==
    /\ dpMode = "train" /\ dp.p = Zero
    /\ dpOut.id = "input" /\ dpOut = dpX

\* C9: the mask of a forward call has exactly the size asked for, one
\* element per (batch, feature) pair, every element is 0 or 1/(1-p), and
\* the output is the input times the mask expanded along the sequence.
C9_MaskValues ==
    dpMask # <<>> =>
        /\ Size(dpMask) = <<1, Len(dpX.data[1]), Len(dpX.data[1][1])>>
        /\ \A i \in Positions(dpMask) : At(dpMask, i) \in {Zero, Scale(dp.p)}
        /\ \A i \in Positions(dpX.data) :
              At(dpOut.data, i) =
                  RMul(At(dpX.data, i), dpMask[1][i[2]][i[3]])

\* A mask with a cancelled element and a kept one, the kept one being
\* 10/7 for p = 3/10.
C9_Witness ==
    /\ dpMask # <<>> /\ dp.p = Rat(3, 10)
    /\ \E i \in Positions(dpMask) : At(dpMask, i) = Zero
    /\ \E i \in Positions(dpMask) : At(dpMask, i) = Rat(10, 7)

LayerPositions(self, n) ==
    {<<i, j>> : i \in 1..Len(self.raw[n][1]), j \in 1..Len(self.raw[n][1][1])}

\* C2: the shadow weights of a WeightDropout are, after any forward
\* passes, resets and mode switches, what the constructor stored.
C2_ShadowUnchanged ==
    wd.st = "ok" => wd.raw = wdRaw0

\* Two training passes after a reset that installed different live
\* weights, both different from the shadow.
C2_Witness ==
    /\ wd.st = "ok" /\ phase = "reset" /\ wdMode = "train"
    /\ wdPrevLive # <<>> /\ wdPrevLive # wd.module
    /\ wd.module.weight_hh_l0 # wd.raw.weight_hh_l0
    /\ wdPrevLive.weight_hh_l0 # wd.raw.weight_hh_l0
    /\ wd.raw = wdRaw0

\* C3: after a training pass every live element of a layer in layer_names
\* is 0 or the shadow element times 1/(1-weight_p), and what the pass
\* returned is what the wrapped recurrence computes with those live weights.
C3_LiveFromShadow ==
    wdMode = "train" =>
        /\ \A n \in wd.layer_names : \A i \in LayerPositions(wd, n) :
              wd.module[n][1][i[1]][i[2]] \in
                  {Zero, RMul(wd.raw[n][1][i[1]][i[2]], Scale(wd.weight_p))}
        /\ ret # <<>> => ret[1] = Cell(wd.module, hidIn[1], WeightStep)

\* An element zeroed by one training pass and non-zero after the next,
\* which started from a non-zero recurrent state.
C3_Witness ==
    /\ wdMode = "train" /\ wdPrevLive # <<>> /\ ret # <<>>
    /\ \E k \in 1..Len(hidIn[1]) : hidIn[1][k] # Zero
    /\ \E i \in LayerPositions(wd, "weight_hh_l0") :
          /\ wdPrevLive.weight_hh_l0[1][i[1]][i[2]] = Zero
          /\ wd.module.weight_hh_l0[1][i[1]][i[2]] =
                 RMul(wd.raw.weight_hh_l0[1][i[1]][i[2]], Scale(wd.weight_p))
          /\ wd.module.weight_hh_l0[1][i[1]][i[2]] # Zero
    /\ \E i \in LayerPositions(wd, "weight_hh_l0") :
          wd.module.weight_hh_l0[1][i[1]][i[2]] = Zero

\* C8: after a pass in evaluation mode the live weights of the layers in
\* layer_names equal the shadow weights, whatever weight_p is.
C8_EvalUsesShadow ==
    wdMode = "eval" =>
        \A n \in wd.layer_names : wd.module[n] = wd.raw[n]

\* An evaluation pass with weight_p = 1/2 right after a pass that masked.
C8_Witness ==
    /\ wdMode = "eval" /\ wd.weight_p = Rat(1, 2) /\ ret # <<>>
    /\ wdPrevLive # <<>>
    /\ wdPrevLive.weight_hh_l0 # wd.raw.weight_hh_l0
    /\ wd.module.weight_hh_l0 = wd.raw.weight_hh_l0

\* C4: two runs of one model (same weights, same masks) that were given
\* different inputs before a reset and the same input after it return the
\* same first output after the reset; and resetting what was just reset
\* changes nothing.
C4_ResetFreshStart ==
    /\ (phase = "reset" /\ run = 1 /\ same) => ret[1] = ret[2]
    /\ wd.st = "ok" =>
          \A k \in 1..2 :
              RNNCore_reset(wd, RNNCore_reset(wd, hidden[k])) =
                  RNNCore_reset(wd, hidden[k])
    /\ (phase = "reset" /\ run = 0) =>
          \A k \in 1..2 : RNNCore_reset(wd, hidden[k]) = hidden[k]

\* The first pass after a reset that found the two runs in different
\* recurrent states.
C4_Witness ==
    /\ phase = "reset" /\ run = 1 /\ same /\ diverged
    /\ ret # <<>> /\ ret[1] = ret[2]
    /\ \E i \in 1..Len(ret[1]) : ret[1][i] # Zero

\* C7: a probability outside [0, 1) never yields a module: construction
\* with one ends in the error state, and no forward call raises.
C7_RejectedAtConstruction ==
    /\ dp.st = "ok" => ValidProbability(dp.p)
    /\ wd.st = "ok" => ValidProbability(wd.weight_p)
    /\ ~ValidProbability(dp.p) => (dp.st = "error" /\ dpMode = "none")
    /\ ~ValidProbability(wd.weight_p) => (wd.st = "error" /\ wdMode = "none")
    /\ dpOut # Raised
    /\ wdMode # "raised"

\* Both constructors have rejected a probability.
C7_Witness ==
    /\ dp.st = "error" /\ dp.p = Rat(3, 2)
    /\ wd.st = "error" /\ wd.weight_p = One

\* C10: in a training pass of EmbeddingDropout every token id is either
\* dropped (each occurrence maps to the zero vector) or kept (each
\* occurrence maps to its row times 1/(1-embed_p)).
C10_WholeRows ==
    embMode = "train" =>
        \A id \in {embWords[i] : i \in 1..Len(embWords)} :
            LET row == emb.weight[1][id + 1]
                occ == {i \in 1..Len(embWords) : embWords[i] = id}
            IN  \/ \A i \in occ : embOut[i] = [c \in 1..Len(row) |-> Zero]
                \/ \A i \in occ :
                      embOut[i] = [c \in 1..Len(row) |->
                                     RMul(row[c], Scale(emb.embed_p))]

\* A pass in which an id occurring twice was dropped and another kept.
C10_Witness ==
    /\ embMode = "train" /\ emb.embed_p = Rat(1, 2)
    /\ \E i, k \in 1..Len(embWords) :
          /\ i # k /\ embWords[i] = embWords[k]
          /\ \A c \in 1..Len(embOut[i]) : embOut[i][c] = Zero
    /\ \E j \in 1..Len(embWords) :
          \A c \in 1..Len(embOut[j]) : embOut[j][c] # Zero

\* C11: after a call of SequentialRNN.reset, every child that has a reset
\* function has had it called exactly once by that call (its hidden states
\* start afresh, and over the model's life it has received one reset per
\* call), every child without one was left alone, and the call did not
\* raise.  The same holds of the children of a child that is itself a
\* SequentialRNN.
C11_ResetReachesChildren ==
    seqLast # <<>> =>
        LET HasOne(c) == c.kind \in {"SequentialRNN", "RNNCore",
                                     "MultiBatchRNNCore", "WeightDropout"}
        IN  /\ ~seqRaised
            /\ \A i \in 1..Len(seq) :
                  /\ IF HasOne(seq[i])
                     THEN seqLast[i] = 1 /\ seq[i].passes = 0
                            /\ seq[i].resets = seqCalls
                     ELSE seqLast[i] = 0 /\ seq[i].resets = 0
                  /\ \A j \in 1..Len(seq[i].children) :
                        LET c == seq[i].children[j]
                        IN  IF HasOne(c)
                            THEN c.passes = 0 /\ c.resets = seqCalls
                            ELSE c.resets = 0

C11_Witness ==
    /\ seqLast # <<>>
    /\ seqCalls >= 2
    /\ Len(seq) >= 3
    /\ \E i \in 1..Len(seq) : seq[i].kind = "RNNCore" /\ seqLast[i] = 1
    /\ \E i \in 1..Len(seq) : seq[i].kind = "LinearDecoder" /\ seqLast[i] = 0
    /\ \E i \in 1..Len(seq) : seq[i].kind = "WeightDropout" /\ seqLast[i] = 1
    /\ \E i \in 1..Len(seq) :
          /\ seq[i].kind = "SequentialRNN" /\ seqLast[i] = 1
          /\ \E j \in 1..Len(seq[i].children) :
                seq[i].children[j].kind = "RNNCore"
                   /\ seq[i].children[j].resets = seqCalls

\* C12: the classifier head is given, for each batch item, the last
\* timestep's output followed by the maximum over time and the mean over
\* time, so the first layer's input size is 3*emb_sz; its blocks are
\* BatchNorm, Dropout, Linear, ReLU in that order, with the ReLU in every
\* block but the last; each block takes the size the one before gives, and
\* the last one gives n_class.
C12_HeadStructure ==
    (clf.st = "ok" /\ clf.via = "get_rnn_classifier") =>
        LET n == Len(clf.blocks)
            Ops(k) == [i \in 1..Len(clf.blocks[k]) |-> clf.blocks[k][i].op]
        IN  /\ n >= 1
            /\ \A k \in 1..n :
                  /\ Ops(k) = IF k < n
                              THEN <<"BatchNorm", "Dropout", "Linear", "ReLU">>
                              ELSE <<"BatchNorm", "Dropout", "Linear">>
                  /\ clf.blocks[k][1].n_in = clf.blocks[k][3].n_in
                  /\ k < n =>
                        clf.blocks[k][3].n_out = clf.blocks[k + 1][3].n_in
            /\ clf.blocks[1][3].n_in = 3 * clf.emb_sz
            /\ clf.blocks[n][3].n_out = clf.n_class
            /\ (clfOut.st # "none" /\ Len(clfIn[1][1]) = clf.emb_sz) =>
                  /\ clfOut.st = "ok"
                  /\ clfOut.last = clfIn[Len(clfIn)]
                  /\ Len(clfOut.x) = Len(clfIn[1])
                  /\ \A b \in 1..Len(clfOut.x) :
                        /\ clfOut.x[b] = clfOut.last[b] \o clfOut.mx[b]
                                            \o clfOut.avg[b]
                        /\ Len(clfOut.x[b]) = 3 * clf.emb_sz
                  /\ clfOut.width = clf.n_class

\* get_rnn_classifier was given n_class = 3, emb_sz = 2 and
\* layers = <<5, 2>>: the first layer of the head takes 5 values and the
\* last gives 2, and the head, called on encoder outputs of 2 features,
\* raises on the 6 values of the concatenation.
C12_Witness ==
    /\ clf.st = "ok" /\ clf.via = "get_rnn_classifier"
    /\ clf.n_class = 3 /\ clf.emb_sz = 2
    /\ clf.layers = <<5, 2>>
    /\ clf.blocks[1][3].n_in = 5
    /\ clf.blocks[1][3].n_out = 2
    /\ clfOut.st = "raised"
    /\ Len(clfIn[1][1]) = 2
    /\ Len(clfOut.x[1]) = 6

\* The sum over time of feature f of batch item b.
RECURSIVE TimeSum(_, _, _, _)
TimeSum(x, b, f, s) ==
    IF s = 0 THEN Zero ELSE RAdd(TimeSum(x, b, f, s - 1), x[s][b][f])

\* C18: pool reduces along the time dimension and no other: there is one
\* value per batch item and feature; with is_max it is the largest of
\* that item's values of that feature over the timesteps, without it their
\* mean; values of different batch items are never combined.
C18_PoolOverTime ==
    clfOut.st = "ok" =>
        LET sl == Len(clfIn)
            bs == Len(clfIn[1])
            nf == Len(clfIn[1][1])
        IN  /\ Len(clfOut.mx) = bs
            /\ Len(clfOut.avg) = bs
            /\ \A b \in 1..bs :
                  /\ Len(clfOut.mx[b]) = nf
                  /\ Len(clfOut.avg[b]) = nf
                  /\ \A f \in 1..nf :
                        /\ \E s \in 1..sl : clfOut.mx[b][f] = clfIn[s][b][f]
                        /\ \A s \in 1..sl :
                              ~RLess(clfOut.mx[b][f], clfIn[s][b][f])
                        /\ RMul(clfOut.avg[b][f], Rat(sl, 1))
                              = TimeSum(clfIn, b, f, sl)

C18_Witness ==
    /\ clfOut.st = "ok"
    /\ Len(clfIn) = 2
    /\ Len(clfIn[1]) = 2
    /\ clfOut.mx # PoolingLinearClassifier_pool_batch(clfIn, 2, TRUE)
    /\ clfOut.avg # PoolingLinearClassifier_pool_batch(clfIn, 2, FALSE)
    /\ clfOut.mx # clfOut.avg

\* C14: when the weights are tied, the decoder's linear layer holds the
\* encoder's embedding weight itself, so that after any updates of either
\* the two are equal; and the last RNN layer of a language model has an
\* output size of emb_sz (each layer taking what the one before gives).
C14_TiedWeights ==
    lm.st = "ok" =>
        /\ lm.tie =>
              /\ lm.dec = lm.enc
              /\ lm.heap[lm.dec] = lm.heap[lm.enc]
        /\ lm.rnn # <<>> =>
              /\ lm.rnn[Len(lm.rnn)][2] = lm.emb_sz
              /\ lm.rnn[1][1] = lm.emb_sz
              /\ \A l \in 1..(Len(lm.rnn) - 1) : lm.rnn[l][2] = lm.rnn[l + 1][1]
              /\ lm.n_hid = lm.emb_sz

C14_Witness ==
    /\ lm.st = "ok"
    /\ lm.tie
    /\ Len(lm.rnn) = 3
    /\ lm.rnn[1][2] # lm.emb_sz
    /\ lm.updates = 2
    /\ lm.heap[lm.enc][1][1] = 13
    /\ lmOut.st = "ok"

\* C15: a tied encoder weight whose shape is not that of the decoder's
\* linear layer is a configuration error detected when the decoder is
\* constructed: no decoder is built on it, and no forward call is the
\* first to report the mismatch.
C15_MismatchAtConstruction ==
    /\ lm.st # "none" =>
          (lm.st = "error" <=>
              lm.tie /\ Shape(lm.heap.enc_w) # <<lm.n_out, lm.n_hid>>)
    /\ lm.st = "error" => lmOut.st = "none"
    /\ lmOut.st # "raised"

C15_Witness ==
    /\ lm.st = "error"
    /\ lm.tie
    /\ Shape(lm.heap.enc_w)[2] # lm.n_hid
    /\ lmOut.st = "none"

\* The probability of one outcome of the Bernoulli(1-p) draw: every element
\* is 1 with probability 1-p and 0 with probability p, independently.
RECURSIVE DrawProbability(_, _, _)
DrawProbability(bern, p, at) ==
    IF at = {} THEN One
    ELSE LET i == CHOOSE i \in at : TRUE
         IN  RMul(IF At(bern, i) = 1 THEN RSub(One, p) ELSE p,
                  DrawProbability(bern, p, at \ {i}))

\* The sum of the probabilities of the outcomes in draws.
RECURSIVE TotalProbability(_, _)
TotalProbability(p, draws) ==
    IF draws = {} THEN Zero
    ELSE LET bern == CHOOSE bern \in draws : TRUE
         IN  RAdd(DrawProbability(bern, p, Positions(bern)),
                  TotalProbability(p, draws \ {bern}))

\* The part the outcomes in draws have in the expected value of element i
\* of what forward returns for x in training mode.
RECURSIVE ExpectedOutput(_, _, _, _)
ExpectedOutput(self, x, i, draws) ==
    IF draws = {} THEN Zero
    ELSE LET bern == CHOOSE bern \in draws : TRUE
         IN  RAdd(RMul(DrawProbability(bern, self.p, Positions(bern)),
                       At(RNNDropout_forward(self, TRUE, x, bern).out.data, i)),
                  ExpectedOutput(self, x, i, draws \ {bern}))

\* C16: for a module built with a valid p and any input, the expected
\* value, over the draw of the mask, of every element of the masked and
\* rescaled output is that element of the input.
C16_ExpectationPreserved ==
    (dp.st = "ok" /\ dpX # NoTensor) =>
        LET draws == Bernoulli(RNNDropout_mask_size(dpX.data), dp.p)
        IN  /\ TotalProbability(dp.p, draws) = One
            /\ \A i \in Positions(dpX.data) :
                  ExpectedOutput(dp, dpX, i, draws) = At(dpX.data, i)

C16_Witness ==
    /\ dp.st = "ok"
    /\ dp.p = Rat(3, 10)
    /\ dpMode = "train"
    /\ dpOut.data # dpX.data
    /\ \E i \in Positions(dpOut.data) : At(dpOut.data, i) = Zero
    /\ \E i \in Positions(dpOut.data) :
          At(dpOut.data, i) = RMul(At(dpX.data, i), Rat(10, 7))
             /\ At(dpX.data, i) # Zero

\* Every way of keeping (1) or cancelling (0) the elements of a mask of
\* size sz, and the mask it gives with probability p.
KeepCancel(sz) == [1..sz[1] -> [1..sz[2] -> [1..sz[3] -> {0, 1}]]]
MaskOf(k, p) ==
    [s \in 1..Len(k) |-> [b \in 1..Len(k[1]) |-> [f \in 1..Len(k[1][1]) |->
        IF k[s][b][f] = 1 THEN Scale(p) ELSE Zero]]]

\* C17: in training mode a forward pass draws one mask and uses it
\* throughout the pass (at every sequence position for RNNDropout, for the
\* whole recurrence for WeightDropout), and the draw does not depend on
\* earlier passes: in every state, whatever passes came before and whatever
\* masks they drew, a forward pass that draws any given mask is possible,
\* so that across two consecutive passes every pair of masks is possible.
C17_OneMaskPerPass ==
    /\ (dp.st = "ok" /\ dpTraining /\ dp.p # Zero) =>
          \A x \in DropoutInputs :
             \A k \in KeepCancel(<<1, Len(x.data[1]), Len(x.data[1][1])>>) :
                ENABLED (/\ DP_forward(x)
                         /\ dpMask' = MaskOf(k, dp.p)
                         /\ dpPrevMask' = dpMask)
    /\ (dpMode = "train" /\ dpMask # <<>>) =>
          /\ Len(dpMask) = 1
          /\ dpOut.data = BroadcastMul(dpX.data, dpMask)
    /\ (wd.st = "ok" /\ wdTraining /\ wd.weight_p # Zero) =>
          \A k \in KeepCancel(Size(wd.raw.weight_hh_l0)) :
             ENABLED (/\ RNN_forward(WeightStep, WeightStep)
                      /\ wd'.module.weight_hh_l0 =
                            BroadcastMul(wd.raw.weight_hh_l0,
                                         MaskOf(k, wd.weight_p))
                      /\ wdPrevLive' = IF run = 0 THEN <<>> ELSE wd.module)
    /\ (wdMode = "train" /\ ret # <<>>) =>
          /\ ret[1] = Cell(wd.module, hidIn[1], WeightStep)
          /\ ret[2] = Cell(wd.module, hidIn[2], WeightStep)

\* Two consecutive passes of an RNNDropout have drawn different masks, the
\* second keeping a pair the first cancelled and cancelling one it kept.
C17_Witness ==
    /\ dp.st = "ok"
    /\ dpMode = "train"
    /\ dp.p = Rat(1, 2)
    /\ dpPrevMask # <<>> /\ dpMask # <<>>
    /\ Size(dpPrevMask) = Size(dpMask)
    /\ \E i \in Positions(dpMask) :
          At(dpPrevMask, i) = Zero /\ At(dpMask, i) # Zero
    /\ \E i \in Positions(dpMask) :
          At(dpPrevMask, i) # Zero /\ At(dpMask, i) = Zero

\* Two consecutive passes of a WeightDropout have left different live
\* weights: an element the first cancelled is not cancelled by the second.
C17_WitnessWeights ==
    /\ wd.st = "ok"
    /\ wdMode = "train"
    /\ wd.weight_p = Rat(1, 2)
    /\ wdPrevLive # <<>>
    /\ wdPrevLive.weight_hh_l0 # wd.module.weight_hh_l0
    /\ wdPrevLive.weight_hh_l0 # wd.raw.weight_hh_l0
    /\ \E i \in LayerPositions(wd, "weight_hh_l0") :
          /\ wdPrevLive.weight_hh_l0[1][i[1]][i[2]] = Zero
          /\ wd.module.weight_hh_l0[1][i[1]][i[2]] # Zero

\* C19: in a forward pass of the language model the dropouts are applied
\* at fixed places and in a fixed order: the embedding dropout first, at
\* the lookup; the input dropout next, on the lookup's result; each RNN
\* layer on the input dropout's result (the first) or on the hidden
\* dropout of the layer before (the others); the hidden dropout only on
\* the output of a layer that feeds a next layer, never on the last
\* layer's; the output dropout on the last layer's output, in the decoder,
\* followed by the linear layer.
C19_DropoutOrder ==
    LET t == fw.trace
        n == fw.n_layers
    IN  /\ \A i \in 1..Len(t) :
              /\ t[i][1] = "encoder_dp" => i = 1
              /\ t[i][1] = "input_dp" => i = 2 /\ t[1][1] = "encoder_dp"
              /\ t[i][1] = "rnn" =>
                    /\ i > 1 /\ t[i][2] \in 1..n
                    /\ t[i - 1] = IF t[i][2] = 1 THEN <<"input_dp", 0>>
                                  ELSE <<"hidden_dp", t[i][2] - 1>>
              /\ t[i][1] = "hidden_dp" =>
                    /\ i > 1 /\ t[i][2] < n
                    /\ t[i - 1] = <<"rnn", t[i][2]>>
              /\ t[i][1] = "output_dp" => i > 1 /\ t[i - 1] = <<"rnn", n>>
              /\ t[i][1] = "decoder" => i > 1 /\ t[i - 1] = <<"output_dp", 0>>
        /\ fw.pc = "done" =>
              /\ Len(t) = 2 * n + 3
              /\ t[Len(t)] = <<"decoder", 0>>

C19_Witness ==
    /\ fw.pc = "done"
    /\ fw.n_layers = 3
    /\ fw.training
    /\ fw.trace = << <<"encoder_dp", 0>>, <<"input_dp", 0>>, <<"rnn", 1>>,
                     <<"hidden_dp", 1>>, <<"rnn", 2>>, <<"hidden_dp", 2>>,
                     <<"rnn", 3>>, <<"output_dp", 0>>, <<"decoder", 0>> >>

============================================================================
